---- MODULE Spec2Model ----
(***************************************************************************)
(* A model of ssacl.py: the SpectrumScale ACL text codec (mmacls.get_acl,  *)
(* write_acl_file), the in-memory mutators of class mmacls, and the        *)
(* update-or-append helpers gac_update_acl / gac_update_default_acl.       *)
(*                                                                         *)
(* Python strings are TLA+ strings; the Python string operations the code  *)
(* uses (in, startswith, split, splitlines, slicing) are operators that    *)
(* compute what Python computes.                                           *)
(***************************************************************************)
EXTENDS Integers, Sequences, FiniteSets, TLC

VARIABLES
    \* ---- gac_update_acl / gac_update_default_acl (one invocation) ----
    gpc,        \* position in the function
    garg,       \* its arguments: filename's scope, aclGroup, aclPerms, dryrun
    aclFile,    \* the temporary file named by get_temp_filename()
    getRc,      \* exit code of mmgetacl (-1: not run)
    inputLine,  \* the text read from aclFile
    found,      \* locals of the function
    foundUser,
    foundGroup,
    foundOther,
    foundMask,
    putCalls,   \* the mmputacl invocations made: flag -d, the file's content, rc
    \* ---- write_acl_file and the parser of get_acl / get_default_acl ----
    cpc,        \* "start", "text" (a text is in outFile), "parsed"
    myacls,     \* write_acl_file's argument myacls (a dict)
    def_acl,    \* write_acl_file's argument def_acl (a dict)
    outFile,    \* the ACL file: written by write_acl_file, or by mmgetacl
    wres,       \* how write_acl_file ended
    vline,      \* the named entry of the text mmgetacl printed
    oddLine,    \* the line of that text that is not an ACL entry
    parsed,     \* what the parser made of outFile
    \* ---- an object of class mmacls ----
    filename,     \* self.filename: the path, or None when os.stat failed
    acls,         \* self.acls: unset, or the dict of the access ACL
    default_acls, \* self.default_acls: unset, or the dict of the default ACL
    cmdRc,        \* the exit code of mmgetacl in the method called last
    ret,          \* what the method called last returned
    last,         \* the method called last, its arguments and how it ended
    pre,          \* self.acls and self.default_acls before that call
    nops          \* the number of constructors and methods called so far

gacVars == <<gpc, garg, aclFile, getRc, inputLine, found, foundUser,
             foundGroup, foundOther, foundMask, putCalls>>

codecVars == <<cpc, myacls, def_acl, outFile, wres, vline, oddLine, parsed>>

objVars == <<filename, acls, default_acls, cmdRc, ret, last, pre, nops>>

vars == <<gacVars, codecVars, objVars>>

\* what a step of gac_update_*, of the codec and of the object leave alone
notGacVars == <<codecVars, objVars>>
notCodecVars == <<gacVars, objVars>>
notObjVars == <<gacVars, codecVars>>

-----------------------------------------------------------------------------
(* Bounds of the model *)

\* the largest number of lines of an ACL text returned by mmgetacl
MaxLines == 4

\* the largest number of named entries (users and groups) of a dict that is
\* passed to write_acl_file
MaxNamed == 2

\* the largest number of methods called on one mmacls object
MaxOps == 4

-----------------------------------------------------------------------------
(* Python string operations *)

Min(a, b) == IF a < b THEN a ELSE b

\* Python: t in s
Contains(s, t) ==
    \E i \in 1..(Len(s) - Len(t) + 1) : SubSeq(s, i, i + Len(t) - 1) = t

\* Python: s.startswith(t)
StartsWith(s, t) == Len(s) >= Len(t) /\ SubSeq(s, 1, Len(t)) = t

\* Python: s[lo:hi] for 0 <= lo, 0 <= hi
Slice(s, lo, hi) ==
    IF lo >= Min(hi, Len(s)) THEN "" ELSE SubSeq(s, lo + 1, Min(hi, Len(s)))

\* index of the first occurrence of the character c in s (0: none)
IndexOf(s, c) ==
    IF Contains(s, c)
    THEN CHOOSE i \in 1..Len(s) :
            /\ SubSeq(s, i, i) = c
            /\ \A j \in 1..(i - 1) : SubSeq(s, j, j) # c
    ELSE 0

\* Python: s.split(c) for a one-character separator c
RECURSIVE Split(_, _)
Split(s, c) ==
    LET i == IndexOf(s, c)
    IN  IF i = 0 THEN <<s>>
        ELSE <<SubSeq(s, 1, i - 1)>> \o Split(SubSeq(s, i + 1, Len(s)), c)

\* Python: s.splitlines() for texts whose line terminator is "\n"
RECURSIVE SplitLines(_)
SplitLines(s) ==
    LET i == IndexOf(s, "\n")
    IN  IF s = "" THEN <<>>
        ELSE IF i = 0 THEN <<s>>
        ELSE <<SubSeq(s, 1, i - 1)>> \o SplitLines(SubSeq(s, i + 1, Len(s)))

-----------------------------------------------------------------------------
(* The vendor's get-ACL output: the environment of gac_update_*            *)

\* lines mmgetacl can print, in the order it prints them
VendorLines ==
    << "#owner:alice\n", "#group:dev\n", "user::rwxc\n", "group::r-x-\n",
       "other::----\n", "mask::rwx-\n", "user:devon:rw--\n",
       "group:dev:r---\n", "group:ops:rwx-\n" >>

RECURSIVE JoinLines(_, _)
JoinLines(S, i) ==
    IF i > Len(VendorLines) THEN ""
    ELSE (IF i \in S THEN VendorLines[i] ELSE "") \o JoinLines(S, i + 1)

\* the ACL texts mmgetacl may write: at most MaxLines of the vendor's lines
AclTexts ==
    { JoinLines(S, 1) :
        S \in { T \in SUBSET (1..Len(VendorLines)) : Cardinality(T) <= MaxLines } }

AclGroups == {"dev", "web"}
AclPerms  == {"rwx-", "r---"}
Scopes    == {"access", "default"}

-----------------------------------------------------------------------------
(* gac_update_acl (scope "access") and gac_update_default_acl ("default")  *)

NoFile == [exists |-> FALSE, data |-> ""]
FileOf(text) == [exists |-> TRUE, data |-> text]

\* the standard directives without the mask
BackfillLines_NoMask == "user::rwxc\n" \o "group::r-x-\n" \o "other::----\n"

\* the four standard directives written when user:: is missing
BackfillLines == "user::rwxc\n" \o "group::r-x-\n" \o "other::----\n" \o "mask::r-x-\n"

\* a mask line carrying the writer's default mask instead
MaskLine_rwxc == "mask::rwxc\n"

\* the mask line written before a new group entry when no mask was found
MaskLine == "mask::r-x-\n"

\* the named-group line appended for aclGroup
GroupLine(g, p) == "group:" \o g \o ":" \o p \o "\n"

\* a containment test that looks for the group's own entry only
FoundInText_EntryOnly(scope, text, g) == Contains(text, "group:" \o g \o ":")

\* the containment test that sets found; the access variant tests a second
\* f.read(), which returns "" at end of file
FoundInText(scope, text, g) ==
    \/ Contains(text, g)
    \/ (scope = "access" /\ Contains("", g))

GacLocalsReset ==
    /\ inputLine' = ""
    /\ found' = FALSE
    /\ foundUser' = FALSE
    /\ foundGroup' = FALSE
    /\ foundOther' = FALSE
    /\ foundMask' = FALSE

\* the call: aclFile = get_temp_filename().  NamedTemporaryFile() creates the
\* file and, the object being dropped on return, removes it again: the name
\* returned is the name of no file.
GacCall ==
    /\ gpc = "idle"
    /\ \E s \in Scopes, g \in AclGroups, p \in AclPerms, d \in BOOLEAN :
          garg' = [scope |-> s, aclGroup |-> g, aclPerms |-> p, dryrun |-> d]
    /\ aclFile' = NoFile
    /\ getRc' = -1
    /\ putCalls' = <<>>
    /\ GacLocalsReset
    /\ gpc' = "get"
    /\ UNCHANGED notGacVars

\* mmgetacl [-d] -o aclFile filename: skipped in a dry run; a nonzero exit
\* code returns None
GacGetAcl ==
    /\ gpc = "get"
    /\ \/ /\ garg.dryrun
          /\ gpc' = "scan"
          /\ UNCHANGED <<aclFile, getRc>>
       \/ /\ ~garg.dryrun
          /\ \E text \in AclTexts :
                /\ aclFile' = FileOf(text)
                /\ getRc' = 0
          /\ gpc' = "scan"
       \/ /\ ~garg.dryrun
          /\ \E f \in {NoFile, FileOf("")} : aclFile' = f
          /\ getRc' = 1
          /\ gpc' = "done"
    /\ UNCHANGED <<garg, inputLine, found, foundUser, foundGroup, foundOther,
                   foundMask, putCalls>>
    /\ UNCHANGED notGacVars

\* with open( aclFile ) as f: the file is read and the five flags are set;
\* open() raises IOError when the file does not exist
GacScan ==
    /\ gpc = "scan"
    /\ \/ /\ ~aclFile.exists
          /\ gpc' = "raised"
          /\ UNCHANGED <<inputLine, found, foundUser, foundGroup, foundOther,
                         foundMask>>
       \/ /\ aclFile.exists
          /\ inputLine' = aclFile.data
          /\ found' = FoundInText(garg.scope, aclFile.data, garg.aclGroup)
          /\ foundUser' = Contains(aclFile.data, "user::")
          /\ foundGroup' = Contains(aclFile.data, "group::")
          /\ foundOther' = Contains(aclFile.data, "other::")
          /\ foundMask' = Contains(aclFile.data, "mask::")
          /\ gpc' = "backfill"
    /\ UNCHANGED <<garg, aclFile, getRc, putCalls>>
    /\ UNCHANGED notGacVars

\* the backfill without "foundMask = True"
GacBackfill_MaskFlagKept ==
    /\ gpc = "backfill"
    /\ \/ /\ ~foundUser
          /\ aclFile' = FileOf(aclFile.data \o BackfillLines)
       \/ /\ foundUser
          /\ UNCHANGED aclFile
    /\ gpc' = "append"
    /\ UNCHANGED <<garg, getRc, inputLine, found, foundUser, foundGroup,
                   foundOther, foundMask, putCalls>>
    /\ UNCHANGED notGacVars

\* if foundUser == False: the four standard directives are appended
GacBackfill ==
    /\ gpc = "backfill"
    /\ \/ /\ ~foundUser
          /\ aclFile' = FileOf(aclFile.data \o BackfillLines)
          /\ foundMask' = TRUE
       \/ /\ foundUser
          /\ UNCHANGED <<aclFile, foundMask>>
    /\ gpc' = "append"
    /\ UNCHANGED <<garg, getRc, inputLine, found, foundUser, foundGroup,
                   foundOther, putCalls>>
    /\ UNCHANGED notGacVars

\* the text of aclFile after the block "if found == False"
AppendedText(text, maskFound, g, p) ==
    text \o (IF maskFound THEN "" ELSE MaskLine) \o GroupLine(g, p)

\* an append block that runs mmputacl whether or not the group was found
GacAppendPut_PutAlways ==
    /\ gpc = "append"
    /\ aclFile' = IF found THEN aclFile
                  ELSE FileOf(AppendedText(aclFile.data, foundMask,
                                           garg.aclGroup, garg.aclPerms))
    /\ IF garg.dryrun
       THEN UNCHANGED putCalls
       ELSE \E rc \in {0, 1} :
               putCalls' = Append(putCalls,
                              [d |-> garg.scope = "default",
                               content |-> aclFile'.data,
                               rc |-> rc])
    /\ gpc' = "done"
    /\ UNCHANGED <<garg, getRc, inputLine, found, foundUser, foundGroup,
                   foundOther, foundMask>>
    /\ UNCHANGED notGacVars

\* if found == False: the mask (if missing) and the group line are appended
\* and mmputacl [-d] -i aclFile filename is run (printed only, in a dry run)
GacAppendPut ==
    /\ gpc = "append"
    /\ \/ /\ found
          /\ UNCHANGED <<aclFile, putCalls>>
       \/ /\ ~found
          /\ aclFile' = FileOf(AppendedText(aclFile.data, foundMask,
                                            garg.aclGroup, garg.aclPerms))
          /\ IF garg.dryrun
             THEN UNCHANGED putCalls
             ELSE \E rc \in {0, 1} :
                     putCalls' = Append(putCalls,
                                    [d |-> garg.scope = "default",
                                     content |-> aclFile'.data,
                                     rc |-> rc])
    /\ gpc' = "done"
    /\ UNCHANGED <<garg, getRc, inputLine, found, foundUser, foundGroup,
                   foundOther, foundMask>>
    /\ UNCHANGED notGacVars

\* the function has returned (or raised); the caller may call again
GacReturn ==
    /\ gpc \in {"done", "raised"}
    /\ gpc' = "idle"
    /\ UNCHANGED <<garg, aclFile, getRc, inputLine, found, foundUser,
                   foundGroup, foundOther, foundMask, putCalls>>
    /\ UNCHANGED notGacVars

-----------------------------------------------------------------------------
(* Python dicts with string keys are functions; {} (and None, where the    *)
(* code only tests "not d") is the function of empty domain                *)

EmptyDict == [k \in {} |-> ""]

\* d[k] = v
DictSet(d, k, v) == [x \in DOMAIN d \cup {k} |-> IF x = k THEN v ELSE d[x]]

\* del d[k]
DictDel(d, k) == [x \in DOMAIN d \ {k} |-> d[x]]

\* the orders in which a dict may iterate over its keys
KeyOrders(d) ==
    { o \in [1..Cardinality(DOMAIN d) -> DOMAIN d] :
        \A i, j \in DOMAIN o : i # j => o[i] # o[j] }

-----------------------------------------------------------------------------
(* write_acl_file( aclfile, myacls, def_acl )                              *)

\* a field selection that prefers def_acl
TriadValue_FallbackFirst(acl, fallback, key) ==
    IF key \in DOMAIN fallback THEN fallback[key] ELSE acl[key]

\* the value written for USERP, GROUPP or OTHERP: myacls' own, else def_acl's
TriadValue(acl, fallback, key) ==
    IF key \in DOMAIN acl THEN acl[key] ELSE fallback[key]

\* the mask line: myacls' own mask, else the default mask when myacls has
\* both the key USERS and the key GROUPS, else nothing
MaskText(acl) ==
    IF "MASK" \in DOMAIN acl THEN "mask::" \o acl["MASK"] \o "\n"
    ELSE IF "USERS" \in DOMAIN acl /\ "GROUPS" \in DOMAIN acl
         THEN "mask::rwxc" \o "\n"
         ELSE ""

\* the lines "<prefix>:<name>:<PERMS>" of a mapping, in iteration order
RECURSIVE NamedText(_, _, _)
NamedText(prefix, entries, order) ==
    IF order = <<>> THEN ""
    ELSE prefix \o ":" \o Head(order) \o ":" \o entries[Head(order)]["PERMS"] \o "\n"
         \o NamedText(prefix, entries, Tail(order))

\* can the triad line of key be written, or does def_acl[key] raise KeyError
TriadKnown(acl, fallback, key) == key \in DOMAIN acl \cup DOMAIN fallback

TriadLine(prefix, acl, fallback, key) ==
    prefix \o "::" \o TriadValue(acl, fallback, key) \o "\n"

\* write_acl_file: how it ends (res) and the text of the file (data); uo and
\* go are the iteration orders of myacls['USERS'] and myacls['GROUPS']
WriteAclFile(acl, fallback, uo, go) ==
    IF DOMAIN acl = {} THEN [res |-> "Error1", written |-> FALSE, data |-> ""]
    ELSE IF DOMAIN fallback = {} THEN [res |-> "Error2", written |-> FALSE, data |-> ""]
    ELSE IF ~TriadKnown(acl, fallback, "USERP")
         THEN [res |-> "KeyError", written |-> TRUE, data |-> ""]
    ELSE IF ~TriadKnown(acl, fallback, "GROUPP")
         THEN [res |-> "KeyError", written |-> TRUE,
               data |-> TriadLine("user", acl, fallback, "USERP")]
    ELSE IF ~TriadKnown(acl, fallback, "OTHERP")
         THEN [res |-> "KeyError", written |-> TRUE,
               data |-> TriadLine("user", acl, fallback, "USERP")
                        \o TriadLine("group", acl, fallback, "GROUPP")]
    ELSE [res |-> "ok", written |-> TRUE,
          data |-> TriadLine("user", acl, fallback, "USERP")
                   \o TriadLine("group", acl, fallback, "GROUPP")
                   \o TriadLine("other", acl, fallback, "OTHERP")
                   \o MaskText(acl)
                   \o (IF "USERS" \in DOMAIN acl
                       THEN NamedText("user", acl["USERS"], uo) ELSE "")
                   \o (IF "GROUPS" \in DOMAIN acl
                       THEN NamedText("group", acl["GROUPS"], go) ELSE "")]

-----------------------------------------------------------------------------
(* The parser of mmacls.get_acl and mmacls.get_default_acl                 *)

Parsed(d) == [err |-> "ok", acl |-> d]
Raised(e) == [err |-> e, acl |-> EmptyDict]

\* EFFECTIVE of a named entry: line.split(':')[3][1:5] when the line
\* contains 'effective', else '????'
EffectiveOf(line, parts) ==
    IF ~Contains(line, "effective") THEN Parsed("????")
    ELSE IF Len(parts) < 4 THEN Raised("IndexError")
    ELSE Parsed(Slice(parts[4], 1, 5))

\* a line that starts with 'user:' or 'group:': the triad when the name is
\* empty, else a named entry
ParseEntry(d, line, parts, triadKey, mapKey) ==
    IF parts[2] = ""
    THEN IF Len(parts) < 3 THEN Raised("IndexError")
         ELSE Parsed(DictSet(d, triadKey, parts[3]))
    ELSE IF Len(parts) < 3 THEN Raised("IndexError")
         ELSE LET eff == EffectiveOf(line, parts)
              IN  IF eff.err # "ok" THEN eff
                  ELSE Parsed(DictSet(d, mapKey,
                         DictSet(d[mapKey], parts[2],
                            [PERMS |-> Slice(parts[3], 0, 4),
                             EFFECTIVE |-> eff.acl])))

\* the body of "for line in output.splitlines()"
ParseLine(d, line) ==
    LET parts == Split(line, ":")
    IN  IF Contains(line, "#owner:") THEN Parsed(DictSet(d, "OWNER", parts[2]))
        ELSE IF Contains(line, "#group:") THEN Parsed(DictSet(d, "GROUP", parts[2]))
        ELSE IF StartsWith(line, "user:") THEN ParseEntry(d, line, parts, "USERP", "USERS")
        ELSE IF StartsWith(line, "group:") THEN ParseEntry(d, line, parts, "GROUPP", "GROUPS")
        ELSE IF Contains(line, "other::") THEN Parsed(DictSet(d, "OTHERP", parts[3]))
        ELSE IF Contains(line, "mask::") THEN Parsed(DictSet(d, "MASK", parts[3]))
        ELSE Parsed(d)

RECURSIVE ParseLines(_, _)
ParseLines(d, lines) ==
    IF lines = <<>> THEN Parsed(d)
    ELSE LET r == ParseLine(d, Head(lines))
         IN  IF r.err # "ok" THEN r ELSE ParseLines(r.acl, Tail(lines))

FileName == "/data/acl/a"

\* mydict before the loop
NewDict(scope) ==
    IF scope = "access"
    THEN [GROUPS |-> EmptyDict, USERS |-> EmptyDict, FQPN |-> FileName,
          DIRNAME |-> FileName]
    ELSE [GROUPS |-> EmptyDict, USERS |-> EmptyDict, FQPN |-> FileName]

\* the dict get_acl / get_default_acl builds from the output of mmgetacl
ParseAcl(scope, output) == ParseLines(NewDict(scope), SplitLines(output))

-----------------------------------------------------------------------------
(* The dicts passed to write_acl_file and the texts passed to the parser   *)

\* a name may contain any text but ':', the word effective included
UserNames  == {"bob", "effective"}
GroupNames == {"dev", "ops"}

\* entries as add_user_acl leaves them and as the parser leaves them
NamedEntries == { [PERMS |-> "rwx-"], [PERMS |-> "r---", EFFECTIVE |-> "r---"] }

Mappings(names) ==
    UNION { [S -> NamedEntries] : S \in SUBSET names }

\* a key of a dict that a caller may or may not set
Optional(values) ==
    {[has |-> FALSE, val |-> ""]} \cup { [has |-> TRUE, val |-> v] : v \in values }

OptionalMapping(names) ==
    {[has |-> FALSE, val |-> EmptyDict]}
    \cup { [has |-> TRUE, val |-> m] : m \in Mappings(names) }

WithKey(d, k, opt) == IF opt.has THEN DictSet(d, k, opt.val) ELSE d

NamedCount(d) ==
    (IF "USERS" \in DOMAIN d THEN Cardinality(DOMAIN d["USERS"]) ELSE 0)
    + (IF "GROUPS" \in DOMAIN d THEN Cardinality(DOMAIN d["GROUPS"]) ELSE 0)

\* the dicts a caller may pass as myacls: any subset of the six keys
AclDicts ==
    { d \in { WithKey(WithKey(WithKey(WithKey(WithKey(WithKey(EmptyDict,
                  "USERP", up), "GROUPP", gp), "OTHERP", op), "MASK", m),
                  "USERS", u), "GROUPS", g) :
                up \in Optional({"rwxc"}), gp \in Optional({"r-x-"}),
                op \in Optional({"----"}), m \in Optional({"rwx-", "r---"}),
                u \in OptionalMapping(UserNames),
                g \in OptionalMapping(GroupNames) } :
        NamedCount(d) <= MaxNamed }

\* the dicts a caller may pass as def_acl: any subset of the triads and mask
FallbackValue(k) ==
    CASE k = "USERP"  -> "rwx-"
      [] k = "GROUPP" -> "r---"
      [] k = "OTHERP" -> "--x-"
      [] k = "MASK"   -> "r-x-"

FallbackDicts ==
    { [k \in S |-> FallbackValue(k)] : S \in SUBSET {"USERP", "GROUPP", "OTHERP", "MASK"} }

\* a named entry as mmgetacl prints it: fmt "plain" (no effective value),
\* "colon" (<perms>:effective:<eff>) or "hash" (<perms>    #effective:<eff>)
EntryFormats == {"plain", "colon", "hash"}

VendorEntries ==
    [kind : {"user", "group"}, name : {"bob", "dev"}, perms : {"rwx-", "rw--"},
     eff : {"r---", "r-x-"}, fmt : EntryFormats, scope : Scopes]

EntryLine(e) ==
    e.kind \o ":" \o e.name \o ":" \o e.perms
    \o (CASE e.fmt = "plain" -> ""
          [] e.fmt = "colon" -> ":effective:" \o e.eff
          [] e.fmt = "hash"  -> "    #effective:" \o e.eff)
    \o "\n"

NoEntry == [kind |-> "", name |-> "", perms |-> "", eff |-> "", fmt |-> "",
            scope |-> "access"]

\* write_acl_file( aclfile, myacls, def_acl ), called with two dicts
CodecWrite ==
    /\ cpc = "start"
    /\ \E acl \in AclDicts, fallback \in FallbackDicts :
          \E uo \in (IF "USERS" \in DOMAIN acl THEN KeyOrders(acl["USERS"]) ELSE {<<>>}),
             go \in (IF "GROUPS" \in DOMAIN acl THEN KeyOrders(acl["GROUPS"]) ELSE {<<>>}) :
             LET w == WriteAclFile(acl, fallback, uo, go)
             IN  /\ myacls' = acl
                 /\ def_acl' = fallback
                 /\ wres' = w.res
                 /\ outFile' = IF w.written THEN FileOf(w.data) ELSE outFile
    /\ cpc' = "text"
    /\ UNCHANGED <<vline, oddLine, parsed>>
    /\ UNCHANGED notCodecVars

\* mmgetacl prints an ACL text with one named entry
CodecVendorText ==
    /\ cpc = "start"
    /\ \E e \in VendorEntries :
          /\ vline' = e
          /\ outFile' = FileOf("user::rwxc\n" \o EntryLine(e))
    /\ cpc' = "text"
    /\ UNCHANGED <<myacls, def_acl, wres, oddLine, parsed>>
    /\ UNCHANGED notCodecVars

\* lines of mmgetacl's output that are no ACL entry (blank lines, comments,
\* flags, truncated entries, entries shifted by a leading character), and
\* one that is
OtherLines ==
    { "", "# comment", "flags:inherit", "mask:", "xmask::r---", " other::rwx-",
      "x#owner:eve", "user:", "user:bob", "group:dev", "mask::r---" }

\* mmgetacl prints an ACL text with one such line between two entries
CodecOtherText ==
    /\ cpc = "start"
    /\ \E l \in OtherLines, s \in Scopes :
          /\ oddLine' = l
          /\ vline' = [NoEntry EXCEPT !.fmt = "other", !.scope = s]
          /\ outFile' = FileOf("user::rwxc\n" \o l \o "\n" \o "group::r-x-\n")
    /\ cpc' = "text"
    /\ UNCHANGED <<myacls, def_acl, wres, parsed>>
    /\ UNCHANGED notCodecVars

\* the parser runs on the text of the file
CodecParse ==
    /\ cpc = "text"
    /\ outFile.exists
    /\ parsed' = ParseAcl(vline.scope, outFile.data)
    /\ cpc' = "parsed"
    /\ UNCHANGED <<myacls, def_acl, outFile, wres, vline, oddLine>>
    /\ UNCHANGED notCodecVars

-----------------------------------------------------------------------------
(* class mmacls: the two dicts of an object and the methods that change    *)
(* them.  An attribute that was never assigned is unset; reading it raises *)
(* AttributeError.                                                         *)

\* no object has been constructed
Unbound == "unbound"

\* no command has been run
NoRc == -1

\* the exit codes of mmgetacl; for an object whose path did not exist the
\* method raises before it runs the command
CommandRcs(fname) == IF fname = "None" THEN {NoRc} ELSE {0, 1}

Unset == [set |-> FALSE, d |-> EmptyDict]
Attr(d) == [set |-> TRUE, d |-> d]

\* the texts mmgetacl prints for the object's path
ObjTexts ==
    { "#owner:alice\n#group:staff\nuser::rwxc\ngroup::r-x-\nother::----\n"
        \o "mask::rwx-\nuser:bob:rwx-\ngroup:dev:r-x-\n",
      "#owner:alice\n#group:staff\nuser::rwxc\ngroup::r-x-\nother::----\n" }

ObjUsers  == {"bob", "eve"}
ObjGroups == {"dev"}
ObjMasks  == {"rw--"}

Outcome(out, attr) == [out |-> out, attr |-> attr]

\* get_acl / get_default_acl: an object whose path did not exist has no
\* self.dirname, and building mydict raises AttributeError.  Otherwise
\* mmgetacl's rc and output decide.  On rc != 0
\* the error branch prints the name stdout, which the method never binds:
\* NameError.  The attribute is assigned after the loop only.
GetAclInto(attr, scope, rc, output) ==
    IF filename = "None" THEN Outcome("AttributeError", attr)
    ELSE IF rc # 0 THEN Outcome("NameError", attr)
    ELSE LET r == ParseAcl(scope, output)
         IN  IF r.err = "ok" THEN Outcome("ok", Attr(r.acl))
             ELSE Outcome(r.err, attr)

\* add_user_acl, add_group_acl, add_default_user_acl, add_default_group_acl:
\* d[mapKey][name] = {}; d[mapKey][name]['PERMS'] = mask
AddEntry(attr, mapKey, name, mask) ==
    IF ~attr.set THEN Outcome("AttributeError", attr)
    ELSE IF mapKey \notin DOMAIN attr.d THEN Outcome("KeyError", attr)
    ELSE Outcome("ok", Attr(DictSet(attr.d, mapKey,
             DictSet(attr.d[mapKey], name, [PERMS |-> mask]))))

\* the del_* methods: "if name in <checked>[mapKey].keys(): del
\* <deleted>[mapKey][name], else print"; the result is the attribute deleted
\* from
DelEntry(checked, deleted, mapKey, name) ==
    IF ~checked.set THEN Outcome("AttributeError", deleted)
    ELSE IF mapKey \notin DOMAIN checked.d THEN Outcome("KeyError", deleted)
    ELSE IF name \notin DOMAIN checked.d[mapKey] THEN Outcome("warning", deleted)
    ELSE IF ~deleted.set THEN Outcome("AttributeError", deleted)
    ELSE IF mapKey \notin DOMAIN deleted.d THEN Outcome("KeyError", deleted)
    ELSE IF name \notin DOMAIN deleted.d[mapKey] THEN Outcome("KeyError", deleted)
    ELSE Outcome("ok", Attr(DictSet(deleted.d, mapKey,
                                    DictDel(deleted.d[mapKey], name))))

\* update_user_perms and the like: d[key] = mask
SetPerms(attr, key, mask) ==
    IF ~attr.set THEN Outcome("AttributeError", attr)
    ELSE Outcome("ok", Attr(DictSet(attr.d, key, mask)))

\* clear_acls / clear_default_acls: MASK, USERS and GROUPS are deleted
ClearEntries(attr) ==
    IF ~attr.set THEN Outcome("AttributeError", attr)
    ELSE Outcome("ok", Attr([k \in DOMAIN attr.d \ {"MASK", "USERS", "GROUPS"} |-> attr.d[k]]))

\* get_group_acl: "if self.acls == None: return '????'", else the PERMS of
\* the group in self.acls['GROUPS'], else '----'.  No method assigns None to
\* self.acls: the attribute is either missing or a dict, and neither equals
\* None
GetGroupAcl(attr, group) ==
    IF ~attr.set THEN [out |-> "AttributeError", ret |-> "None"]
    ELSE IF "GROUPS" \notin DOMAIN attr.d THEN [out |-> "KeyError", ret |-> "None"]
    ELSE IF group \in DOMAIN attr.d["GROUPS"]
         THEN [out |-> "ok", ret |-> attr.d["GROUPS"][group]["PERMS"]]
         ELSE [out |-> "ok", ret |-> "----"]

Called(op, name, mask, out) == [op |-> op, name |-> name, mask |-> mask, out |-> out]

\* a method call that may change self.acls only; c is the exit code of the
\* command it ran
OnAclsRc(op, name, mask, r, c) ==
    /\ cmdRc' = c
    /\ nops' = nops + 1
    /\ pre' = [acls |-> acls, default_acls |-> default_acls]
    /\ last' = Called(op, name, mask, r.out)
    /\ ret' = "None"
    /\ acls' = r.attr
    /\ UNCHANGED <<filename, default_acls>>
    /\ UNCHANGED notObjVars

\* the same for a method that runs no command
OnAcls(op, name, mask, r) == OnAclsRc(op, name, mask, r, NoRc)

\* a method call that may change self.default_acls only; c is the exit code
\* of the command it ran
OnDefaultAclsRc(op, name, mask, r, c) ==
    /\ cmdRc' = c
    /\ nops' = nops + 1
    /\ pre' = [acls |-> acls, default_acls |-> default_acls]
    /\ last' = Called(op, name, mask, r.out)
    /\ ret' = "None"
    /\ default_acls' = r.attr
    /\ UNCHANGED <<filename, acls>>
    /\ UNCHANGED notObjVars

\* the same for a method that runs no command
OnDefaultAcls(op, name, mask, r) == OnDefaultAclsRc(op, name, mask, r, NoRc)

\* mmacls( fname ): os.stat fails and the object is left with filename None
\* and no dict, or it succeeds and get_acl runs; an exception of get_acl
\* leaves the constructor and there is no object
ObjInit ==
    /\ nops < MaxOps
    /\ filename = Unbound
    /\ nops' = nops + 1
    /\ pre' = [acls |-> acls, default_acls |-> default_acls]
    /\ ret' = "None"
    /\ UNCHANGED default_acls
    /\ UNCHANGED notObjVars
    /\ \/ /\ filename' = "None"
          /\ cmdRc' = NoRc
          /\ last' = Called("__init__", "", "", "ok")
          /\ UNCHANGED acls
       \/ \E c \in {0, 1}, output \in ObjTexts :
             LET r == GetAclInto(acls, "access", c, output)
             IN  /\ cmdRc' = c
                 /\ filename' = IF r.out = "ok" THEN FileName ELSE Unbound
                 /\ last' = Called("__init__", "", "", r.out)
                 /\ acls' = r.attr

ObjGetAcl ==
    /\ nops < MaxOps
    /\ filename # Unbound
    /\ \E c \in CommandRcs(filename), output \in ObjTexts :
          OnAclsRc("get_acl", "", "", GetAclInto(acls, "access", c, output), c)

ObjGetDefaultAcl ==
    /\ nops < MaxOps
    /\ filename # Unbound
    /\ \E c \in CommandRcs(filename), output \in ObjTexts :
          OnDefaultAclsRc("get_default_acl", "", "",
                          GetAclInto(default_acls, "default", c, output), c)

ObjAddUserAcl ==
    /\ nops < MaxOps
    /\ filename # Unbound
    /\ \E u \in ObjUsers, m \in AclPerms :
          OnAcls("add_user_acl", u, m, AddEntry(acls, "USERS", u, m))

ObjAddGroupAcl ==
    /\ nops < MaxOps
    /\ filename # Unbound
    /\ \E g \in ObjGroups, m \in AclPerms :
          OnAcls("add_group_acl", g, m, AddEntry(acls, "GROUPS", g, m))

ObjAddDefaultUserAcl ==
    /\ nops < MaxOps
    /\ filename # Unbound
    /\ \E u \in ObjUsers, m \in AclPerms :
          OnDefaultAcls("add_default_user_acl", u, m,
                        AddEntry(default_acls, "USERS", u, m))

ObjAddDefaultGroupAcl ==
    /\ nops < MaxOps
    /\ filename # Unbound
    /\ \E g \in ObjGroups, m \in AclPerms :
          OnDefaultAcls("add_default_group_acl", g, m,
                        AddEntry(default_acls, "GROUPS", g, m))

\* update_user_perms, update_group_perms, update_other_perms
ObjUpdatePerms ==
    /\ nops < MaxOps
    /\ filename # Unbound
    /\ \E k \in {"USERP", "GROUPP", "OTHERP"}, m \in ObjMasks :
          OnAcls("update_perms", k, m, SetPerms(acls, k, m))

\* update_default_user_perms, update_default_group_perms,
\* update_default_other_perms
ObjUpdateDefaultPerms ==
    /\ nops < MaxOps
    /\ filename # Unbound
    /\ \E k \in {"USERP", "GROUPP", "OTHERP"}, m \in ObjMasks :
          OnDefaultAcls("update_default_perms", k, m, SetPerms(default_acls, k, m))

\* del_user_acl tests self.acls['USERS'] and deletes from
\* self.default_acls['USERS']
ObjDelUserAcl ==
    /\ nops < MaxOps
    /\ filename # Unbound
    /\ \E u \in ObjUsers :
          OnDefaultAcls("del_user_acl", u, "", DelEntry(acls, default_acls, "USERS", u))

ObjDelGroupAcl ==
    /\ nops < MaxOps
    /\ filename # Unbound
    /\ \E g \in ObjGroups :
          OnAcls("del_group_acl", g, "", DelEntry(acls, acls, "GROUPS", g))

ObjDelDefaultUserAcl ==
    /\ nops < MaxOps
    /\ filename # Unbound
    /\ \E u \in ObjUsers :
          OnDefaultAcls("del_default_user_acl", u, "",
                        DelEntry(default_acls, default_acls, "USERS", u))

ObjDelDefaultGroupAcl ==
    /\ nops < MaxOps
    /\ filename # Unbound
    /\ \E g \in ObjGroups :
          OnDefaultAcls("del_default_group_acl", g, "",
                        DelEntry(default_acls, default_acls, "GROUPS", g))

ObjClearAcls ==
    /\ nops < MaxOps
    /\ filename # Unbound
    /\ OnAcls("clear_acls", "", "", ClearEntries(acls))

ObjClearDefaultAcls ==
    /\ nops < MaxOps
    /\ filename # Unbound
    /\ OnDefaultAcls("clear_default_acls", "", "", ClearEntries(default_acls))

\* get_group_acl( group ): reads self.acls and returns a string
ObjGetGroupAcl ==
    /\ nops < MaxOps
    /\ filename # Unbound
    /\ \E g \in ObjGroups \cup {"ops"} :
          LET r == GetGroupAcl(acls, g)
          IN  /\ nops' = nops + 1
              /\ pre' = [acls |-> acls, default_acls |-> default_acls]
              /\ last' = Called("get_group_acl", g, "", r.out)
              /\ ret' = r.ret
              /\ cmdRc' = NoRc
    /\ UNCHANGED <<filename, acls, default_acls>>
    /\ UNCHANGED notObjVars

-----------------------------------------------------------------------------
(* The specifications *)

\* nothing has been called yet: gac_update_* is idle, no dict has been
\* written and no text parsed, and no mmacls object has been constructed
Init ==
    /\ gpc = "idle"
    /\ garg = [scope |-> "access", aclGroup |-> "dev", aclPerms |-> "rwx-",
               dryrun |-> FALSE]
    /\ aclFile = NoFile
    /\ getRc = -1
    /\ inputLine = ""
    /\ found = FALSE
    /\ foundUser = FALSE
    /\ foundGroup = FALSE
    /\ foundOther = FALSE
    /\ foundMask = FALSE
    /\ putCalls = <<>>
    /\ cpc = "start"
    /\ myacls = EmptyDict
    /\ def_acl = EmptyDict
    /\ outFile = NoFile
    /\ wres = "none"
    /\ vline = NoEntry
    /\ oddLine = ""
    /\ parsed = [err |-> "none", acl |-> EmptyDict]
    /\ acls = Unset
    /\ default_acls = Unset
    /\ filename = Unbound
    /\ cmdRc = NoRc
    /\ ret = "None"
    /\ last = Called("none", "", "", "ok")
    /\ pre = [acls |-> Unset, default_acls |-> Unset]
    /\ nops = 0

GacNext ==
    \/ GacCall
    \/ GacGetAcl
    \/ GacScan
    \/ GacBackfill
    \/ GacAppendPut
    \/ GacReturn

SpecGac == Init /\ [][GacNext]_vars

CodecNext ==
    \/ CodecWrite
    \/ CodecVendorText
    \/ CodecOtherText
    \/ CodecParse

SpecCodec == Init /\ [][CodecNext]_vars

ObjNext ==
    \/ ObjInit
    \/ ObjGetAcl
    \/ ObjGetDefaultAcl
    \/ ObjAddUserAcl
    \/ ObjAddGroupAcl
    \/ ObjAddDefaultUserAcl
    \/ ObjAddDefaultGroupAcl
    \/ ObjUpdatePerms
    \/ ObjUpdateDefaultPerms
    \/ ObjDelUserAcl
    \/ ObjDelGroupAcl
    \/ ObjDelDefaultUserAcl
    \/ ObjDelDefaultGroupAcl
    \/ ObjClearAcls
    \/ ObjClearDefaultAcls
    \/ ObjGetGroupAcl

SpecObj == Init /\ [][ObjNext]_vars

-----------------------------------------------------------------------------
(* Properties of gac_update_acl / gac_update_default_acl, under SpecGac    *)

\* the function returned after reading an ACL text from mmgetacl
GacReturnedAfterRead == gpc = "done" /\ getRc = 0

\* what the function appended to the text it read
AppendedPart == Slice(aclFile.data, Len(inputLine), Len(aclFile.data))

\* C1: when aclGroup occurs anywhere in the text read (a header, another
\* entry, its own entry), no group:<aclGroup>: line is appended, the text
\* read is kept as it is (no entry's permissions change) and mmputacl is
\* not run, in either scope and whatever aclPerms is.
C1_PresentGroupNotAppended ==
    (GacReturnedAfterRead /\ Contains(inputLine, garg.aclGroup))
        => /\ StartsWith(aclFile.data, inputLine)
           /\ ~Contains(AppendedPart, "group:" \o garg.aclGroup \o ":")
           /\ putCalls = <<>>

\* reached: the group has an entry with other permissions than those asked
\* for, in the default scope
C1_Witness ==
    /\ GacReturnedAfterRead
    /\ garg.scope = "default"
    /\ garg.aclGroup = "dev"
    /\ garg.aclPerms = "rwx-"
    /\ Contains(inputLine, "group:dev:r---\n")

\* C2: when the text read lacks aclGroup and contains user::, the file is
\* the text read, then mask::r-x- iff the text had no mask::, then
\* group:<aclGroup>:<aclPerms> as the last line; mmputacl is run once on
\* that file, with -d exactly in the default scope.
C2_AppendAfterExistingTriads ==
    (/\ GacReturnedAfterRead
     /\ ~Contains(inputLine, garg.aclGroup)
     /\ Contains(inputLine, "user::"))
        => /\ aclFile.data =
                inputLine
                \o (IF Contains(inputLine, "mask::") THEN "" ELSE "mask::r-x-\n")
                \o "group:" \o garg.aclGroup \o ":" \o garg.aclPerms \o "\n"
           /\ Len(putCalls) = 1
           /\ putCalls[1].content = aclFile.data
           /\ putCalls[1].d = (garg.scope = "default")

\* reached: the scenario of the specification, devteam's place taken by web
C2_Witness ==
    /\ GacReturnedAfterRead
    /\ garg.aclGroup = "web"
    /\ inputLine = "#owner:alice\n#group:dev\nuser::rwxc\ngroup::r-x-\n"
    /\ aclFile.data = inputLine \o "mask::r-x-\ngroup:web:rwx-\n"
    /\ Len(putCalls) = 1

\* C3: when the text read lacks user::, group::, other:: and mask:: and
\* lacks aclGroup, exactly user::rwxc, group::r-x-, other::----, mask::r-x-
\* and then group:<aclGroup>:<aclPerms> are appended: no second mask::.
C3_BackfillThenGroup ==
    (/\ GacReturnedAfterRead
     /\ ~Contains(inputLine, garg.aclGroup)
     /\ ~Contains(inputLine, "user::")
     /\ ~Contains(inputLine, "group::")
     /\ ~Contains(inputLine, "other::")
     /\ ~Contains(inputLine, "mask::"))
        => aclFile.data =
              inputLine
              \o "user::rwxc\ngroup::r-x-\nother::----\nmask::r-x-\n"
              \o "group:" \o garg.aclGroup \o ":" \o garg.aclPerms \o "\n"

\* reached: a text of headers and named entries only
C3_Witness ==
    /\ GacReturnedAfterRead
    /\ garg.aclGroup = "web"
    /\ inputLine = "#owner:alice\nuser:devon:rw--\n"
    /\ Len(SplitLines(aclFile.data)) = 7

\* C4 as stated: when aclGroup is present in the text read, the file is
\* the text read, also for a text that lacks user::.
C4_Original_PresentGroupFileUntouched ==
    (GacReturnedAfterRead /\ Contains(inputLine, garg.aclGroup))
        => aclFile.data = inputLine

\* C4 as amended: when aclGroup is present in the text read, the file is
\* the text read if that text contains user::, and otherwise the text read
\* followed by the four standard directives and nothing else; mmputacl is
\* not run.
C4_PresentGroupOnlyBackfill ==
    (GacReturnedAfterRead /\ Contains(inputLine, garg.aclGroup))
        => /\ aclFile.data =
                inputLine
                \o (IF Contains(inputLine, "user::") THEN ""
                    ELSE "user::rwxc\ngroup::r-x-\nother::----\nmask::r-x-\n")
           /\ putCalls = <<>>

\* reached: the group is present and user:: is not, so the backfill ran
C4_Witness ==
    /\ GacReturnedAfterRead
    /\ garg.aclGroup = "dev"
    /\ inputLine = "#group:dev\nmask::rwx-\n"
    /\ aclFile.data # inputLine

\* C12 as stated: when gac_update_acl / gac_update_default_acl returns
\* (mmgetacl failed, group already present, mmputacl run with either exit
\* code), the temporary file of that call no longer exists.
C12_Original_TempFileRemoved ==
    gpc = "done" => ~aclFile.exists

\* the text ends with the suffix
EndsWith(text, suffix) ==
    /\ Len(text) >= Len(suffix)
    /\ Slice(text, Len(text) - Len(suffix), Len(text)) = suffix

\* C15: in a call of gac_update_acl / gac_update_default_acl mmputacl is run
\* at most once, only after mmgetacl exited with 0 and only when aclGroup
\* does not occur in the text read (and with -d exactly in the default
\* variant); the file it is given contains user::, contains mask:: and ends
\* with the line group:<aclGroup>:<aclPerms>.
C15_PutOnceOnCompleteFile ==
    /\ Len(putCalls) <= 1
    /\ \A i \in 1..Len(putCalls) :
          /\ ~garg.dryrun
          /\ getRc = 0
          /\ ~Contains(inputLine, garg.aclGroup)
          /\ putCalls[i].d = (garg.scope = "default")
          /\ Contains(putCalls[i].content, "user::")
          /\ Contains(putCalls[i].content, "mask::")
          /\ EndsWith(putCalls[i].content, GroupLine(garg.aclGroup, garg.aclPerms))

\* reached: mmputacl -d has run once and failed, on a file whose text had
\* a user:: line and no mask
C15_Witness ==
    /\ gpc = "done"
    /\ Len(putCalls) = 1
    /\ putCalls[1].d
    /\ putCalls[1].rc = 1
    /\ Contains(inputLine, "user::")
    /\ ~Contains(inputLine, "mask::")
    /\ putCalls[1].content = inputLine \o MaskLine
                                \o GroupLine(garg.aclGroup, garg.aclPerms)

-----------------------------------------------------------------------------
(* Properties of write_acl_file and the parser, under SpecCodec            *)

\* write_acl_file wrote the whole file
Written == cpc \in {"text", "parsed"} /\ wres = "ok"

\* the lines of the file
FileLines == SplitLines(outFile.data)

HasLine(l) == \E i \in 1..Len(FileLines) : FileLines[i] = l

\* the mask:: lines of the file
MaskLines == { FileLines[i] : i \in { j \in 1..Len(FileLines) : StartsWith(FileLines[j], "mask::") } }

\* what a mapping gives for each name, the effective value left out
PermsOf(d, mapKey) ==
    IF mapKey \in DOMAIN d
    THEN [n \in DOMAIN d[mapKey] |-> d[mapKey][n]["PERMS"]]
    ELSE EmptyDict

\* C5 as stated: a dict with a named user or a named group is written with a
\* mask:: line, its own mask or else mask::rwxc, also when it has only one
\* of the two mappings.
C5_Original_MaskWheneverNamed ==
    (Written /\ NamedCount(myacls) >= 1)
        => HasLine("mask::" \o (IF "MASK" \in DOMAIN myacls THEN myacls["MASK"]
                                ELSE "rwxc"))

\* the value the specification selects for a field: the record's, else the
\* fallback's
Selected(k) == IF k \in DOMAIN myacls THEN myacls[k] ELSE def_acl[k]

\* C6 as stated: for each of USERP, GROUPP, OTHERP and MASK the file has
\* myacls' value when myacls has the key and def_acl's value otherwise.
C6_Original_FourFieldsFallBack ==
    Written =>
        /\ HasLine("user::" \o Selected("USERP"))
        /\ HasLine("group::" \o Selected("GROUPP"))
        /\ HasLine("other::" \o Selected("OTHERP"))
        /\ ("MASK" \in DOMAIN myacls \cup DOMAIN def_acl
               => HasLine("mask::" \o Selected("MASK")))

\* C6 as amended: the first three lines are user::, group:: and other::
\* with myacls' value, else def_acl's (the write raises KeyError exactly
\* when neither dict has one of the three); the mask written is myacls' own,
\* and without one it is never def_acl's: no mask:: line other than the
\* default mask::rwxc is written.
C6_TriadsFallBackMaskDoesNot ==
    /\ Written =>
          /\ Len(FileLines) >= 3
          /\ FileLines[1] = "user::" \o Selected("USERP")
          /\ FileLines[2] = "group::" \o Selected("GROUPP")
          /\ FileLines[3] = "other::" \o Selected("OTHERP")
          /\ IF "MASK" \in DOMAIN myacls
             THEN MaskLines = {"mask::" \o myacls["MASK"]}
             ELSE MaskLines \subseteq {"mask::rwxc"}
    /\ (cpc \in {"text", "parsed"} /\ wres = "KeyError")
          <=> /\ cpc \in {"text", "parsed"}
              /\ DOMAIN myacls # {}
              /\ DOMAIN def_acl # {}
              /\ ~({"USERP", "GROUPP", "OTHERP"} \subseteq DOMAIN myacls \cup DOMAIN def_acl)

\* reached: myacls has neither USERP nor MASK, def_acl has both, and the
\* file carries def_acl's USERP and the default mask
C6_Witness ==
    /\ Written
    /\ "USERP" \notin DOMAIN myacls
    /\ "MASK" \notin DOMAIN myacls
    /\ "MASK" \in DOMAIN def_acl
    /\ HasLine("user::rwx-")
    /\ HasLine("mask::rwxc")
    /\ ~HasLine("mask::r-x-")

\* the file of a written dict has been parsed
RoundTripped == cpc = "parsed" /\ wres = "ok"

\* the named entries of the two dicts agree in name and PERMS
SameNamedEntries ==
    /\ PermsOf(parsed.acl, "USERS") = PermsOf(myacls, "USERS")
    /\ PermsOf(parsed.acl, "GROUPS") = PermsOf(myacls, "GROUPS")

\* C7 as stated: parsing what write_acl_file wrote gives back USERP,
\* GROUPP, OTHERP, the mask (present or absent alike) and every named
\* entry's PERMS.
C7_Original_RoundTrip ==
    RoundTripped =>
        /\ parsed.err = "ok"
        /\ \A k \in {"USERP", "GROUPP", "OTHERP"} \cap DOMAIN myacls :
              k \in DOMAIN parsed.acl /\ parsed.acl[k] = myacls[k]
        /\ "MASK" \in DOMAIN parsed.acl <=> "MASK" \in DOMAIN myacls
        /\ "MASK" \in DOMAIN myacls => parsed.acl["MASK"] = myacls["MASK"]
        /\ SameNamedEntries

\* C8 as stated: <kind>:<name>:<perms>:effective:<eff> is stored with
\* PERMS = <perms> and EFFECTIVE = <eff>, and <kind>:<name>:<perms> with
\* EFFECTIVE = '????'.
C8_Original_EffectiveStored ==
    (cpc = "parsed" /\ vline.fmt \in {"colon", "plain"})
        => /\ parsed.err = "ok"
           /\ LET m == parsed.acl[IF vline.kind = "user" THEN "USERS" ELSE "GROUPS"]
              IN  /\ vline.name \in DOMAIN m
                  /\ m[vline.name]["PERMS"] = vline.perms
                  /\ m[vline.name]["EFFECTIVE"] =
                        (IF vline.fmt = "colon" THEN vline.eff ELSE "????")

\* the line starts with one of the eight directive prefixes: #owner:,
\* #group:, other::, mask::, or user: / group: followed by a name (possibly
\* empty) and a second colon
StartsWithDirective(l) ==
    \/ StartsWith(l, "#owner:")
    \/ StartsWith(l, "#group:")
    \/ StartsWith(l, "other::")
    \/ StartsWith(l, "mask::")
    \/ (StartsWith(l, "user:") /\ Len(Split(l, ":")) >= 3)
    \/ (StartsWith(l, "group:") /\ Len(Split(l, ":")) >= 3)

\* C14 as stated: a line that starts with none of the eight directive
\* prefixes is ignored: the parser does not fail and the dict is the one the
\* other lines give, also when the line contains mask:: or other:: further
\* in, or has fewer fields than an entry.
C14_Original_OtherLinesIgnored ==
    (cpc = "parsed" /\ vline.fmt = "other" /\ ~StartsWithDirective(oddLine))
        => /\ parsed.err = "ok"
           /\ parsed.acl = DictSet(DictSet(NewDict(vline.scope), "USERP", "rwxc"),
                                   "GROUPP", "r-x-")

-----------------------------------------------------------------------------
(* Properties of the methods of mmacls, under SpecObj                      *)

\* the dict a method is documented to work on, before and after the call
TargetIsDefault ==
    last.op \in {"del_default_user_acl", "del_default_group_acl",
                 "add_default_user_acl", "add_default_group_acl"}
TargetBefore == IF TargetIsDefault THEN pre.default_acls ELSE pre.acls
TargetAfter  == IF TargetIsDefault THEN default_acls ELSE acls
OtherBefore  == IF TargetIsDefault THEN pre.acls ELSE pre.default_acls
OtherAfter   == IF TargetIsDefault THEN acls ELSE default_acls

TargetMapping ==
    IF last.op \in {"del_user_acl", "del_default_user_acl",
                    "add_user_acl", "add_default_user_acl"}
    THEN "USERS" ELSE "GROUPS"

\* C9 as stated: a del_* method removes the name's entry from its dict and
\* nothing else when the name has one, and otherwise only warns; it never
\* fails and never touches the dict of the other scope.
C9_Original_DeleteOrWarn ==
    (/\ last.op \in {"del_user_acl", "del_group_acl",
                     "del_default_user_acl", "del_default_group_acl"}
     /\ TargetBefore.set
     /\ TargetMapping \in DOMAIN TargetBefore.d)
        => /\ OtherAfter = OtherBefore
           /\ IF last.name \in DOMAIN TargetBefore.d[TargetMapping]
              THEN /\ last.out = "ok"
                   /\ TargetAfter.set
                   /\ TargetAfter.d =
                         DictSet(TargetBefore.d, TargetMapping,
                                 DictDel(TargetBefore.d[TargetMapping], last.name))
              ELSE /\ last.out = "warning"
                   /\ TargetAfter = TargetBefore

\* C10 as stated: an add_* method called on a dict, whatever was called
\* before, succeeds, maps the name to the permissions, leaves the other
\* names alone, and called again changes nothing.
C10_Original_UnconditionalUpsert ==
    (/\ last.op \in {"add_user_acl", "add_group_acl",
                     "add_default_user_acl", "add_default_group_acl"}
     /\ TargetBefore.set)
        => /\ last.out = "ok"
           /\ TargetMapping \in DOMAIN TargetAfter.d
           /\ last.name \in DOMAIN TargetAfter.d[TargetMapping]
           /\ TargetAfter.d[TargetMapping][last.name]["PERMS"] = last.mask
           /\ TargetMapping \in DOMAIN TargetBefore.d
           /\ \A n \in DOMAIN TargetBefore.d[TargetMapping] \ {last.name} :
                 /\ n \in DOMAIN TargetAfter.d[TargetMapping]
                 /\ TargetAfter.d[TargetMapping][n] = TargetBefore.d[TargetMapping][n]
           /\ AddEntry(TargetAfter, TargetMapping, last.name, last.mask).attr = TargetAfter

\* C11 as stated: get_group_acl returns the PERMS stored for the group,
\* '----' for a group that a record does not name, and '????' when the
\* object has no record; it never fails and never changes the record.
C11_Original_FindGroupPerms ==
    last.op = "get_group_acl"
        => /\ last.out = "ok"
           /\ acls = pre.acls
           /\ default_acls = pre.default_acls
           /\ ret = IF ~pre.acls.set THEN "????"
                    ELSE IF /\ "GROUPS" \in DOMAIN pre.acls.d
                            /\ last.name \in DOMAIN pre.acls.d["GROUPS"]
                         THEN pre.acls.d["GROUPS"][last.name]["PERMS"]
                         ELSE "----"

\* a method ended by raising one of these
Exceptions == {"NameError", "AttributeError", "KeyError", "IndexError", "IOError"}

\* C13 as stated: when mmgetacl exits with a nonzero code the parser does
\* not run and no record is stored, the failure is reported to the caller
\* (the call does not raise), and gac_update_acl / gac_update_default_acl
\* does not touch the file and never runs mmputacl.
C13_Original_GetAclFailureStops ==
    /\ (last.op \in {"__init__", "get_acl", "get_default_acl"} /\ cmdRc \notin {0, NoRc})
          => /\ acls = pre.acls
             /\ default_acls = pre.default_acls
             /\ last.out \notin Exceptions
    /\ (gpc \in {"done", "raised"} /\ getRc \notin {0, -1})
          => /\ gpc = "done"
             /\ inputLine = ""
             /\ aclFile.data = ""
             /\ putCalls = <<>>

====
